---- MODULE Spec2Model ----
(***************************************************************************)
(* The chain / chain_segment / chain_iterator subsystem of                 *)
(* hardwave::heapfree (include/hardwave/heapfree/chain.hpp) as a state     *)
(* machine over a small address space.  An address ("slot") holds a chain  *)
(* header or a segment; the memory of a destroyed object keeps the bytes   *)
(* its destructor left, and a later construction at the same address       *)
(* reinitialises them.                                                     *)
(***************************************************************************)
EXTENDS Integers, Sequences, FiniteSets, TLC

\* ------------------------------------------------------------- bounds
NumChains == 2
\* segment slots used by Spec and SpecBug
NumSegs == 3
\* segment slots used by SpecSeq
NumSeqSegs == 4
\* SpecBug follows a run for MaxBad more operations once the links of the
\* live objects stopped being mutually consistent; Spec follows it up to
\* the operation that breaks them.
MaxBad == 1

\* SpecCopy follows it for MaxStale more operations.
MaxStale == 3
MaxArg == 2

\* ------------------------------------------------------------- addresses
NULL == 0
Chains == 1..NumChains
NumSlots == IF NumSegs > NumSeqSegs THEN NumSegs ELSE NumSeqSegs
Segs == (NumChains + 1)..(NumChains + NumSlots)
MainSegs == (NumChains + 1)..(NumChains + NumSegs)
SeqSegs == (NumChains + 1)..(NumChains + NumSeqSegs)
Nodes == Chains \cup Segs
Ptrs == Nodes \cup {NULL}

VARIABLES
  next,     \* chain_ptr::next of every slot
  prev,     \* chain_ptr::prev of every slot
  payload,  \* chain_segment::payload of every segment slot
  alive,    \* the slots that hold a constructed, not yet destroyed object
  it,       \* one chain_iterator the caller keeps: [ch, pt]
  last,     \* the operation that ran last, its arguments and its outcome
  pre,      \* next, prev, payload, alive and it as they were before it ran
  halted,   \* the process was terminated (std::abort, trap, endless loop)
  budget,   \* the operations the run may still start on inconsistent links
  ref       \* the reference sequence run beside a chain, or NoRef

vars == <<next, prev, payload, alive, it, last, pre, halted, budget, ref>>

\* ------------------------------------------------------------- memory
\* The link fields as one value the operations below thread through their
\* statements.  fault: a store went through a null pointer.  stuck: the
\* operation read through a null pointer inside a loop that cannot end.
Mem == [next |-> next, prev |-> prev, fault |-> FALSE, stuck |-> FALSE]

SetNext(M, x, v) ==
  IF x = NULL THEN [M EXCEPT !.fault = TRUE] ELSE [M EXCEPT !.next[x] = v]

SetPrev(M, x, v) ==
  IF x = NULL THEN [M EXCEPT !.fault = TRUE] ELSE [M EXCEPT !.prev[x] = v]

\* chain_ptr copy: super() = otr.super()
CopyPtrs(M, d, s) ==
  [M EXCEPT !.next[d] = M.next[s], !.prev[d] = M.prev[s]]

\* chain_ptr::swap / std::swap(super(), otr.super())
SwapPtrs(M, a, b) ==
  [M EXCEPT !.next[a] = M.next[b], !.next[b] = M.next[a],
            !.prev[a] = M.prev[b], !.prev[b] = M.prev[a]]

NullPtrs(M, s) == [M EXCEPT !.next[s] = NULL, !.prev[s] = NULL]

\* ------------------------------------------------------------- segment
is_linked(M, s) == M.next[s] /= NULL

\* A faulty fix_foreign_links that repairs the successor only; the properties
\* of the segment moves must tell it from the real one.
fix_foreign_links_next_only(M, s) ==
  IF ~is_linked(M, s) THEN M ELSE SetPrev(M, M.next[s], s)

fix_foreign_links(M, s) ==
  IF ~is_linked(M, s) THEN M
  ELSE LET M1 == SetPrev(M, M.next[s], s)
       IN  SetNext(M1, M1.prev[s], s)

\* A faulty unlink that leaves the next pointer of the predecessor alone
seg_unlink_next_only(M, s) ==
  NullPtrs(SetPrev(M, M.next[s], M.prev[s]), s)

\* A faulty unlink that takes the segment out of the ring and leaves its own
\* pointers as they are
seg_unlink_keeps_own(M, s) ==
  LET M1 == SetPrev(M, M.next[s], M.prev[s])
  IN  SetNext(M1, M1.prev[s], M1.next[s])

\* chain_segment::unlink after its assertion
seg_unlink(M, s) ==
  LET M1 == SetPrev(M, M.next[s], M.prev[s])
      M2 == SetNext(M1, M1.prev[s], M1.next[s])
  IN  NullPtrs(M2, s)

\* A faulty move constructor that takes the links over without repairing
\* the neighbours
seg_move_construct_no_fix(M, d, s) == NullPtrs(CopyPtrs(M, d, s), s)

\* chain_segment(me_t&&): the links of otr are taken over and repaired
seg_move_construct(M, d, s) ==
  fix_foreign_links(NullPtrs(CopyPtrs(M, d, s), s), d)

\* A faulty move assignment that leaves a linked destination in its ring
seg_move_assign_no_unlink(M, d, s) ==
  fix_foreign_links(NullPtrs(CopyPtrs(M, d, s), s), d)

\* chain_segment::operator=(me_t&&)
seg_move_assign(M, d, s) ==
  LET M1 == IF is_linked(M, d) THEN seg_unlink(M, d) ELSE M
  IN  fix_foreign_links(NullPtrs(CopyPtrs(M1, d, s), s), d)

\* chain_segment::swap
seg_swap(M, a, b) ==
  fix_foreign_links(fix_foreign_links(SwapPtrs(M, a, b), a), b)

\* ~chain_segment
seg_destroy(M, s) == IF is_linked(M, s) THEN seg_unlink(M, s) ELSE M

\* ------------------------------------------------------------- chain
empty(M, c) == M.next[c] = c

chain_construct(M, c) == [M EXCEPT !.next[c] = c, !.prev[c] = c]

\* A faulty link that inserts the segment after the node of pos
link_after(M, pos, s) ==
  LET n  == M.next[pos]
      M1 == [M EXCEPT !.prev[s] = pos, !.next[s] = n]
      M2 == [M1 EXCEPT !.next[pos] = s]
  IN  SetPrev(M2, n, s)

\* A faulty link that leaves the prev pointer of the node of pos alone
link_without_back(M, pos, s) ==
  LET p  == M.prev[pos]
      M1 == [M EXCEPT !.prev[s] = p, !.next[s] = pos]
  IN  SetNext(M1, p, s)

\* chain::link after its two assertions; pos is the iterator's node
link(M, pos, s) ==
  LET p  == M.prev[pos]
      M1 == [M EXCEPT !.prev[s] = p, !.next[s] = pos]
      M2 == [M1 EXCEPT !.prev[pos] = s]
  IN  SetNext(M2, p, s)

\* A faulty clear that resets the sentinel and leaves the segments alone
clear_sentinel_only(M, c) == [M EXCEPT !.next[c] = c, !.prev[c] = c]

RECURSIVE ClearWalk(_, _, _)
ClearWalk(M, c, cur) ==
  IF cur = c THEN M
  ELSE IF cur = NULL THEN [M EXCEPT !.stuck = TRUE]
  ELSE ClearWalk(NullPtrs(M, cur), c, M.next[cur])

clear(M, c) == ClearWalk(chain_construct(M, c), c, M.next[c])

\* A faulty fix_moved_ptrs that repairs the last segment only
fix_moved_ptrs_last_only(M, c) == SetNext(M, M.prev[c], c)

\* A faulty chain swap without the special cases for empty chains
chain_swap_plain(M, a, b) ==
  LET M1 == SetNext(SwapPtrs(M, a, b), M.prev[b], a)
      M2 == SetPrev(M1, M1.next[a], a)
      M3 == SetNext(M2, M2.prev[b], b)
  IN  SetPrev(M3, M3.next[b], b)

fix_moved_ptrs(M, c) ==
  LET M1 == SetNext(M, M.prev[c], c)
  IN  SetPrev(M1, M1.next[c], c)

\* A faulty chain move assignment that does not clear the destination
chain_move_assign_no_clear(M, d, s) ==
  IF empty(M, s) THEN M
  ELSE chain_construct(fix_moved_ptrs(CopyPtrs(M, d, s), d), s)

\* chain::operator=(me_t&&)
chain_move_assign(M, d, s) ==
  LET M1 == clear(M, d)
  IN  IF empty(M1, s) THEN M1
      ELSE chain_construct(fix_moved_ptrs(CopyPtrs(M1, d, s), d), s)

\* chain::swap
chain_swap(M, a, b) ==
  IF empty(M, a) THEN chain_move_assign(M, a, b)
  ELSE IF empty(M, b) THEN chain_move_assign(M, b, a)
  ELSE fix_moved_ptrs(fix_moved_ptrs(SwapPtrs(M, a, b), a), b)

\* The address of the local chain tmp of std::swap; it exists only while
\* std::swap runs.
TmpChain == NumChains + NumSlots + 1

WithTmp(M) ==
  [M EXCEPT
     !.next = [n \in Nodes \cup {TmpChain} |->
                 IF n = TmpChain THEN NULL ELSE M.next[n]],
     !.prev = [n \in Nodes \cup {TmpChain} |->
                 IF n = TmpChain THEN NULL ELSE M.prev[n]]]

DropTmp(M) ==
  [M EXCEPT !.next = [n \in Nodes |-> M.next[n]],
            !.prev = [n \in Nodes |-> M.prev[n]]]

\* std::swap(a, b) on chains:
\* me_t tmp{std::move(a)}; a = std::move(b); b = std::move(tmp); then ~tmp
chain_std_swap(M, a, b) ==
  LET t  == TmpChain
      M1 == chain_move_assign(chain_construct(WithTmp(M), t), t, a)
      M2 == chain_move_assign(M1, a, b)
      M3 == chain_move_assign(M2, b, t)
  IN  DropTmp(clear(M3, t))

\* The local segment tmp of std::swap on two segments has the address the
\* local chain of std::swap on two chains has.
TmpSeg == TmpChain

\* A faulty exchange without the temporary: a = std::move(b); b = std::move(a)
seg_std_swap_no_tmp(M, a, b) ==
  seg_move_assign(seg_move_assign(M, a, b), b, a)

\* std::swap(a, b) on segments:
\* me_t tmp{std::move(a)}; a = std::move(b); b = std::move(tmp); then ~tmp
seg_std_swap(M, a, b) ==
  LET t  == TmpSeg
      M1 == seg_move_construct(WithTmp(M), t, a)
      M2 == seg_move_assign(M1, a, b)
      M3 == seg_move_assign(M2, b, t)
  IN  DropTmp(seg_destroy(M3, t))

\* ------------------------------------------------------------- iterator
NullIt == [ch |-> NULL, pt |-> NULL]
MkIt(c, p) == [ch |-> c, pt |-> p]

begin(M, c) == MkIt(c, M.next[c])
end(c) == MkIt(c, c)

\* chain_iterator::assert_nonull holds
nonull(i) == i.pt /= NULL /\ i.ch /= NULL

\* chain_iterator::is_end after assert_nonull
is_end(i) == i.ch = i.pt

Fuel == NumChains + NumSlots

\* A faulty chain_is_valid that takes every linked segment for a member
chain_is_valid_linked_only(M, i) ==
  IF M.next[i.pt] = NULL THEN "false" ELSE "true"

\* chain_iterator::chain_is_valid: "true", "false", or "stuck" when the loop
\* runs into a null pointer or round a ring that holds neither node
RECURSIVE ValidWalk(_, _, _, _)
ValidWalk(M, i, p, fuel) ==
  IF p = i.pt THEN "false"
  ELSE IF p = i.ch THEN "true"
  ELSE IF p = NULL \/ fuel = 0 THEN "stuck"
  ELSE ValidWalk(M, i, M.next[p], fuel - 1)

chain_is_valid(M, i) ==
  IF M.next[i.pt] = NULL THEN "false"
  ELSE ValidWalk(M, i, M.next[i.pt], Fuel)

\* The number of nodes the loop of chain_is_valid examines; more than Fuel
\* when the loop does not end
RECURSIVE ValidVisits(_, _, _, _)
ValidVisits(M, i, p, fuel) ==
  IF p = i.pt \/ p = i.ch THEN 1
  ELSE IF p = NULL \/ fuel = 0 THEN Fuel + 1
  ELSE 1 + ValidVisits(M, i, M.next[p], fuel - 1)

chain_is_valid_visits(M, i) ==
  IF M.next[i.pt] = NULL THEN 0
  ELSE ValidVisits(M, i, M.next[i.pt], Fuel)

\* The loop of std::distance(begin(), end()) and of a range-for over
\* segments(): operator++ from begin() until the iterator equals end().
\* res: "ok" (seq holds the nodes visited), "abort" (operator++ asserted on
\* a null pt), "hang" (the walk never meets the sentinel).
RECURSIVE Walk(_, _, _, _, _)
Walk(f, c, cur, acc, fuel) ==
  IF cur = c THEN [seq |-> acc, res |-> "ok"]
  ELSE IF cur = NULL THEN [seq |-> acc, res |-> "abort"]
  ELSE IF fuel = 0 THEN [seq |-> acc, res |-> "hang"]
  ELSE Walk(f, c, f[cur], Append(acc, cur), fuel - 1)

\* chain::segments() read from begin() to end()
segments(M, c) == Walk(M.next, c, M.next[c], <<>>, Fuel)

\* the same ring read from end() backwards along prev
rsegments(M, c) == Walk(M.prev, c, M.prev[c], <<>>, Fuel)

\* chain::size()
size(M, c) == Len(segments(M, c).seq)

\* A faulty operator++ that follows prev
RECURSIVE advance_backwards(_, _, _)
advance_backwards(M, i, n) ==
  IF n = 0 THEN i
  ELSE IF ~nonull(i) \/ is_end(i) THEN NullIt
  ELSE advance_backwards(M, MkIt(i.ch, M.prev[i.pt]), n - 1)

\* std::advance(it, n) on a chain iterator: n times operator++, which asserts
\* that the iterator is neither null nor at the end; NullIt stands for the
\* failed assertion.
RECURSIVE advance(_, _, _)
advance(M, i, n) ==
  IF n = 0 THEN i
  ELSE IF ~nonull(i) \/ is_end(i) THEN NullIt
  ELSE advance(M, MkIt(i.ch, M.next[i.pt]), n - 1)

\* A faulty operator[] that follows next idx times and dereferences
\* without any assertion
RECURSIVE follow(_, _, _)
follow(M, p, n) == IF n = 0 \/ p = NULL THEN p ELSE follow(M, M.next[p], n - 1)

at_unchecked(M, c, idx) == [res |-> "ok", seg |-> follow(M, M.next[c], idx)]

\* chain::operator[] on the segments: iterator_range{*this}[idx], that is
\* begin(), advance by idx, dereference (segment() asserts !is_end()).
at(M, c, idx) ==
  LET i == advance(M, begin(M, c), idx)
  IN  IF ~nonull(i) \/ is_end(i)
      THEN [res |-> "abort", seg |-> NULL]
      ELSE [res |-> "ok", seg |-> i.pt]

\* chain_iterator::segment() / operator*: the node referred to, after the
\* assertions that the iterator is neither null nor at the end
deref(i) ==
  IF ~nonull(i) \/ is_end(i)
  THEN [res |-> "abort", seg |-> NULL]
  ELSE [res |-> "ok", seg |-> i.pt]

\* A faulty operator-- without its assertion
decrement_unchecked(M, i) ==
  IF ~nonull(i) THEN [res |-> "abort", it |-> i]
  ELSE [res |-> "ok", it |-> MkIt(i.ch, M.prev[i.pt])]

\* A faulty operator-- that asserts on the position it starts from
decrement_checks_start(M, i) ==
  IF ~nonull(i) \/ is_end(i) THEN [res |-> "abort", it |-> i]
  ELSE [res |-> "ok", it |-> MkIt(i.ch, M.prev[i.pt])]

\* chain_iterator::operator--: pt = pt->prev, then the assertion that the
\* iterator is not at the end; it is the iterator as the call leaves it
decrement(M, i) ==
  IF ~nonull(i) THEN [res |-> "abort", it |-> i]
  ELSE LET j == MkIt(i.ch, M.prev[i.pt])
       IN  IF nonull(j) /\ ~is_end(j)
           THEN [res |-> "ok", it |-> j]
           ELSE [res |-> "abort", it |-> j]

\* A faulty operator== that compares the nodes only
it_eq_node_only(i, j) == i.pt = j.pt

\* chain_iterator::operator==
it_eq(i, j) == j.ch = i.ch /\ j.pt = i.pt

\* chain::front(): *begin()
front(M, c) == deref(begin(M, c))

\* A faulty back() that dereferences begin()
back_from_begin(M, c) == deref(begin(M, c))

\* chain::back(): *std::prev(end()), the decrement of a copy of end() and
\* the dereference of what it yields
back(M, c) ==
  LET d == decrement(M, end(c))
  IN  IF d.res = "ok" THEN deref(d.it) ELSE [res |-> "abort", seg |-> NULL]

\* ------------------------------------------------------------- iterator_range
\* iterator_range::empty(): b == e
range_empty(b, e) == it_eq(b, e)

\* std::distance(b, e) on chain iterators: operator++ until the cursor
\* equals e; n counts the increments.  res: "ok", "abort" (operator++
\* asserted), "hang" (e is never met)
RECURSIVE distance(_, _, _, _, _)
distance(M, i, e, n, fuel) ==
  IF it_eq(i, e) THEN [res |-> "ok", n |-> n]
  ELSE IF ~nonull(i) \/ is_end(i) THEN [res |-> "abort", n |-> n]
  ELSE IF fuel = 0 THEN [res |-> "hang", n |-> n]
  ELSE distance(M, MkIt(i.ch, M.next[i.pt]), e, n + 1, fuel - 1)

\* A faulty size() that counts up to the end of the chain whatever e is
range_size_to_sentinel(M, b, e) ==
  IF range_empty(b, e) THEN [res |-> "ok", n |-> 0]
  ELSE distance(M, b, MkIt(b.ch, b.ch), 0, Fuel)

\* iterator_range::size()
range_size(M, b, e) ==
  IF range_empty(b, e) THEN [res |-> "ok", n |-> 0]
  ELSE distance(M, b, e, 0, Fuel)

\* ------------------------------------------------------------- event
\* The two chains of an event
member_listeners == 1
listeners == 2

\* The arguments an event is fired with, and what is left of an argument
\* after a listener has moved it into its own parameter
ArgValues == 1..MaxArg
MovedFrom == NULL

\* The loop body of try_fire over the handlers q: every handler is called
\* with std::forward<Args>(args), a reference to the one argument object v
\* of this fire; the listeners of the set taken move from it.
RECURSIVE Invoke(_, _, _)
Invoke(q, v, taken) ==
  IF q = <<>> THEN <<>>
  ELSE <<[l |-> Head(q), arg |-> v]>>
         \o Invoke(Tail(q), IF Head(q) \in taken THEN MovedFrom ELSE v, taken)

\* A faulty try_fire whose result looks at the chain listeners only
try_fire_listeners_only(M, arg, taken) ==
  LET ml == segments(M, member_listeners)
      ls == segments(M, listeners)
  IN  [res   |-> IF ml.res = "ok" /\ ls.res = "ok" THEN "ok" ELSE "stuck",
       calls |-> Invoke(ml.seq \o ls.seq, arg, taken),
       ret   |-> size(M, listeners) > 0]

\* try_fire: the handlers of member_listeners, then those of listeners; the
\* result says whether there was a listener
try_fire(M, arg, taken) ==
  LET ml == segments(M, member_listeners)
      ls == segments(M, listeners)
  IN  [res   |-> IF ml.res = "ok" /\ ls.res = "ok" THEN "ok" ELSE "stuck",
       calls |-> Invoke(ml.seq \o ls.seq, arg, taken),
       ret   |-> size(M, listeners) > 0 \/ size(M, member_listeners) > 0]

\* ------------------------------------------------------------- steps
\* The record of an operation: its name, outcome ("ok", "abort", "ub"), the
\* chain c, the segments a and b, the position pos it took, the iterator
\* ret it returned and the calls it made to event listeners.
Rec(op, c, a, b, pos, ret) ==
  [op |-> op, res |-> "ok", c |-> c, a |-> a, b |-> b, pos |-> pos,
   ret |-> ret, calls |-> <<>>]

NoRec == Rec("none", NULL, NULL, NULL, NullIt, NullIt)

Snapshot ==
  [next |-> next, prev |-> prev, payload |-> payload, alive |-> alive, it |-> it]

NoSnapshot ==
  [next |-> <<>>, prev |-> <<>>, payload |-> <<>>, alive |-> {}, it |-> NullIt]

\* Every live node is unlinked, or linked between two live nodes that point
\* back at it.
Consistent ==
  \A n \in alive :
    \/ n \in Segs /\ next[n] = NULL /\ prev[n] = NULL
    \/ /\ next[n] \in alive /\ prev[n] \in alive
       /\ prev[next[n]] = n /\ next[prev[n]] = n

\* The caller goes on while the process lives.  The run is observed at its
\* last operation only: last and pre are kept for the operation after which
\* the caller stops, and are empty while it goes on.
Running ==
  /\ ~halted
  /\ last = NoRec
  /\ Consistent \/ budget > 0

\* No reference sequence is run beside the chains.
NoRef == <<NULL>>

\* The reference sequence after the operation r: push-front, push-back,
\* insert-before-position, remove-element and clear on a sequence of
\* segment addresses.  The registration of an event listener appends the
\* listener, the destruction of a segment removes it.
RefRemove(q, x) == SelectSeq(q, LAMBDA y : y /= x)

RefInsert(q, node, x) ==
  IF node \in Chains THEN Append(q, x)
  ELSE LET i == CHOOSE k \in 1..Len(q) : q[k] = node
       IN  SubSeq(q, 1, i - 1) \o <<x>> \o SubSeq(q, i, Len(q))

RefStep(r) ==
  IF ref = NoRef \/ r.res /= "ok" THEN ref
  ELSE CASE r.op = "link_front" -> <<r.a>> \o ref
         [] r.op = "link_back" -> Append(ref, r.a)
         [] r.op = "link" -> RefInsert(ref, r.pos.pt, r.a)
         [] r.op \in {"chain_unlink", "seg_unlink"} -> RefRemove(ref, r.a)
         [] r.op = "clear" -> <<>>
         [] r.op \in {"on", "member_event_listener"} -> Append(ref, r.a)
         [] r.op = "seg_destroy" -> RefRemove(ref, r.a)
         [] OTHER -> ref

Observe(r) ==
  /\ budget' = IF Consistent THEN budget ELSE budget - 1
  /\ ref' = RefStep(r)
  /\ \/ last' = r /\ pre' = Snapshot
     \/ last' = NoRec /\ pre' = NoSnapshot /\ halted' = FALSE

\* An operation ran to its end with link fields M.  A store through a null
\* pointer either trapped (the process ends) or fell on a page that absorbs
\* it; a loop that reads through null never returns.
Done(r, M, pay, alv, itr) ==
  \/ /\ ~M.stuck
     /\ next' = M.next /\ prev' = M.prev
     /\ payload' = pay /\ alive' = alv /\ it' = itr
     /\ halted' = FALSE
     /\ Observe([r EXCEPT !.res = IF M.fault THEN "ub" ELSE "ok"])
  \/ /\ M.fault \/ M.stuck
     /\ UNCHANGED <<next, prev, payload, alive, it>>
     /\ halted' = TRUE
     /\ Observe([r EXCEPT !.res = "ub"])

\* HEAPFREE_ASSERT failed and HEAPFREE_ABORT was called: the operation ends
\* there with outcome "abort".  With the throwing hook of test/abort-throw.hpp
\* the caller goes on; with the hook of error.hpp the run ends at this
\* operation.  itr is the caller's iterator at the moment of the assertion.
Abort(r, itr) ==
  /\ UNCHANGED <<next, prev, payload, alive>>
  /\ it' = itr
  /\ halted' = FALSE
  /\ Observe([r EXCEPT !.res = "abort"])

\* ------------------------------------------------------------- segment operations
Live(S) == S \subseteq alive

\* chain_segment(), chain_segment(v), chain_segment(std::in_place, args...).
\* The payload a segment is constructed with names its slot, which tells
\* the payloads of the segments apart.
SegConstruct(s) ==
  /\ Running /\ s \in Segs \ alive
  /\ Done(Rec("seg_construct", NULL, s, NULL, NullIt, NullIt),
          NullPtrs(Mem, s), [payload EXCEPT ![s] = s], alive \cup {s}, it)

\* chain_segment(const me_t&) = default: base chain_ptr and payload are copied
SegCopyConstruct(d, s) ==
  /\ Running /\ d \in Segs \ alive /\ s \in Segs \cap alive
  /\ Done(Rec("seg_copy_construct", NULL, d, s, NullIt, NullIt),
          CopyPtrs(Mem, d, s), [payload EXCEPT ![d] = payload[s]],
          alive \cup {d}, it)

\* chain_segment& operator=(const me_t&) = default
SegCopyAssign(d, s) ==
  /\ Running /\ Live({d, s}) /\ {d, s} \subseteq Segs
  /\ Done(Rec("seg_copy_assign", NULL, d, s, NullIt, NullIt),
          CopyPtrs(Mem, d, s), [payload EXCEPT ![d] = payload[s]], alive, it)

SegMoveConstruct(d, s) ==
  /\ Running /\ d \in Segs \ alive /\ s \in Segs \cap alive
  /\ Done(Rec("seg_move_construct", NULL, d, s, NullIt, NullIt),
          seg_move_construct(Mem, d, s), [payload EXCEPT ![d] = payload[s]],
          alive \cup {d}, it)

SegMoveAssign(d, s) ==
  /\ Running /\ Live({d, s}) /\ {d, s} \subseteq Segs
  /\ Done(Rec("seg_move_assign", NULL, d, s, NullIt, NullIt),
          seg_move_assign(Mem, d, s), [payload EXCEPT ![d] = payload[s]],
          alive, it)

SegSwap(a, b) ==
  /\ Running /\ Live({a, b}) /\ {a, b} \subseteq Segs
  /\ Done(Rec("seg_swap", NULL, a, b, NullIt, NullIt),
          seg_swap(Mem, a, b),
          [payload EXCEPT ![a] = payload[b], ![b] = payload[a]], alive, it)

\* std::swap(a, b) on two segments
SegStdSwap(a, b) ==
  /\ Running /\ Live({a, b}) /\ {a, b} \subseteq Segs
  /\ Done(Rec("seg_std_swap", NULL, a, b, NullIt, NullIt),
          seg_std_swap(Mem, a, b),
          [payload EXCEPT ![a] = payload[b], ![b] = payload[a]], alive, it)

SegUnlink(s) ==
  /\ Running /\ s \in Segs \cap alive
  /\ LET r == Rec("seg_unlink", NULL, s, NULL, NullIt, NullIt)
     IN  IF is_linked(Mem, s)
         THEN Done(r, seg_unlink(Mem, s), payload, alive, it)
         ELSE Abort(r, it)

\* ~chain_segment; the payload of a destroyed slot is not read again
SegDestroy(s) ==
  /\ Running /\ s \in Segs \cap alive
  /\ Done(Rec("seg_destroy", NULL, s, NULL, NullIt, NullIt),
          seg_destroy(Mem, s), [payload EXCEPT ![s] = NULL], alive \ {s}, it)

\* ------------------------------------------------------------- chain operations
ChainConstruct(c) ==
  /\ Running /\ c \in Chains \ alive
  /\ Done(Rec("chain_construct", c, NULL, NULL, NullIt, NullIt),
          chain_construct(Mem, c), payload, alive \cup {c}, it)

\* ~chain: clear()
ChainDestroy(c) ==
  /\ Running /\ c \in Chains \cap alive
  /\ Done(Rec("chain_destroy", c, NULL, NULL, NullIt, NullIt),
          clear(Mem, c), payload, alive \ {c}, it)

\* chain(me_t&& otr) : chain{} { me() = std::move(otr); }
ChainMoveConstruct(d, s) ==
  /\ Running /\ d \in Chains \ alive /\ s \in Chains \cap alive
  /\ Done(Rec("chain_move_construct", d, NULL, s, NullIt, NullIt),
          chain_move_assign(chain_construct(Mem, d), d, s),
          payload, alive \cup {d}, it)

ChainMoveAssign(d, s) ==
  /\ Running /\ Live({d, s}) /\ {d, s} \subseteq Chains
  /\ Done(Rec("chain_move_assign", d, NULL, s, NullIt, NullIt),
          chain_move_assign(Mem, d, s), payload, alive, it)

ChainSwap(a, b) ==
  /\ Running /\ Live({a, b}) /\ {a, b} \subseteq Chains
  /\ Done(Rec("chain_swap", a, NULL, b, NullIt, NullIt),
          chain_swap(Mem, a, b), payload, alive, it)

\* std::swap(a, b) on two chains
ChainStdSwap(a, b) ==
  /\ Running /\ Live({a, b}) /\ {a, b} \subseteq Chains
  /\ Done(Rec("chain_std_swap", a, NULL, b, NullIt, NullIt),
          chain_std_swap(Mem, a, b), payload, alive, it)

\* A faulty clear that also resets the payload of the segments it unlinks
ClearResetsPayload(c) ==
  /\ Running /\ c \in Chains \cap alive
  /\ Done(Rec("clear", c, NULL, NULL, NullIt, NullIt), clear(Mem, c),
          [s \in Segs |->
             IF \E k \in 1..size(Mem, c) : segments(Mem, c).seq[k] = s
             THEN NULL ELSE payload[s]],
          alive, it)

Clear(c) ==
  /\ Running /\ c \in Chains \cap alive
  /\ Done(Rec("clear", c, NULL, NULL, NullIt, NullIt),
          clear(Mem, c), payload, alive, it)

\* A faulty precondition of link that accepts a segment that is linked
link_asserts_chain_only(M, c, pos, s) ==
  /\ pos.ch = c
  /\ nonull(pos)

\* The two assertions of chain::link and the assert_nonull of it.ptrs()
link_asserts(M, c, pos, s) ==
  /\ ~is_linked(M, s)
  /\ pos.ch = c
  /\ nonull(pos)

\* chain::link(it, seg) called as op with position pos
LinkAt(op, c, pos, s) ==
  /\ Running /\ c \in Chains \cap alive /\ s \in Segs \cap alive
  /\ LET r == Rec(op, c, s, NULL, pos, MkIt(c, s))
     IN  IF link_asserts(Mem, c, pos, s)
         THEN Done(r, link(Mem, pos.pt, s), payload, alive, it)
         ELSE Abort([r EXCEPT !.ret = NullIt], it)

Link(c, pos, s) == LinkAt("link", c, pos, s)

LinkBack(c, s) == LinkAt("link_back", c, end(c), s)

LinkFront(c, s) == LinkAt("link_front", c, begin(Mem, c), s)

\* The assertions met by chain::unlink(it): its own, those of std::next(it)
\* (operator++), of it.segment() and of chain_segment::unlink
unlink_asserts(M, c, pos) ==
  /\ pos.ch = c
  /\ nonull(pos)
  /\ ~is_end(pos)
  /\ is_linked(M, pos.pt)

ChainUnlink(c, pos) ==
  /\ Running /\ c \in Chains \cap alive
  /\ LET r == Rec("chain_unlink", c, pos.pt, NULL, pos, NullIt)
     IN  IF unlink_asserts(Mem, c, pos)
         THEN Done([r EXCEPT !.ret = MkIt(c, next[pos.pt])],
                   seg_unlink(Mem, pos.pt), payload, alive, it)
         ELSE Abort(r, it)

\* chain::place(it, args...): segment seg{args...}; link(it, seg); return seg;
\* The returned segment is seg itself at the caller's address d (copy
\* elision), or is move-constructed at d from seg at address t, which is
\* then destroyed.
PlaceAt(op, c, pos, d) ==
  /\ Running /\ c \in Chains \cap alive /\ d \in Segs \ alive
  /\ LET r == Rec(op, c, d, NULL, pos, NullIt)
     IN  IF link_asserts(NullPtrs(Mem, d), c, pos, d)
         THEN \/ Done(r, link(NullPtrs(Mem, d), pos.pt, d),
                      [payload EXCEPT ![d] = d], alive \cup {d}, it)
              \/ \E t \in Segs \ (alive \cup {d}) :
                   Done([r EXCEPT !.b = t],
                        seg_destroy(
                          seg_move_construct(
                            link(NullPtrs(Mem, t), pos.pt, t), d, t), t),
                        [payload EXCEPT ![d] = d], alive \cup {d}, it)
         ELSE Abort(r, it)

Place(c, pos, d) == PlaceAt("place", c, pos, d)

PlaceBack(c, d) == PlaceAt("place_back", c, end(c), d)

PlaceFront(c, d) == PlaceAt("place_front", c, begin(Mem, c), d)

\* ------------------------------------------------------------- iterator operations
\* chain_iterator(), chain::begin(), chain::end()
ItDefault ==
  /\ Running /\ it /= NullIt
  /\ Done(Rec("it_default", NULL, NULL, NULL, it, NullIt),
          Mem, payload, alive, NullIt)

ItBegin(c) ==
  /\ Running /\ c \in Chains \cap alive
  /\ Done(Rec("it_begin", c, NULL, NULL, it, begin(Mem, c)),
          Mem, payload, alive, begin(Mem, c))

ItEnd(c) ==
  /\ Running /\ c \in Chains \cap alive
  /\ Done(Rec("it_end", c, NULL, NULL, it, end(c)),
          Mem, payload, alive, end(c))

\* make_chain_it: the checked constructor
ItMake(c, s) ==
  /\ Running /\ c \in Chains \cap alive /\ s \in Segs \cap alive
  /\ LET r == Rec("make_chain_it", c, s, NULL, it, MkIt(c, s))
         v == chain_is_valid(Mem, MkIt(c, s))
     IN  CASE v = "true"  -> Done(r, Mem, payload, alive, MkIt(c, s))
           [] v = "false" -> Abort([r EXCEPT !.ret = NullIt], it)
           [] OTHER -> Done(r, [Mem EXCEPT !.stuck = TRUE], payload, alive, it)

\* unsafe_make_chain_it / iterator::unsafe_create
ItUnsafe(c, s) ==
  /\ Running /\ c \in Chains \cap alive /\ s \in Segs \cap alive
  /\ Done(Rec("unsafe_make_chain_it", c, s, NULL, it, MkIt(c, s)),
          Mem, payload, alive, MkIt(c, s))

\* A faulty operator++ without its assertion
ItIncUnchecked ==
  /\ Running /\ nonull(it)
  /\ Done(Rec("it_inc", it.ch, NULL, NULL, it, NullIt),
          Mem, payload, alive, MkIt(it.ch, next[it.pt]))

\* operator++
ItInc ==
  /\ Running
  /\ LET r == Rec("it_inc", it.ch, NULL, NULL, it, NullIt)
     IN  IF nonull(it) /\ ~is_end(it)
         THEN Done(r, Mem, payload, alive, MkIt(it.ch, next[it.pt]))
         ELSE Abort(r, it)

\* operator--: pt is moved before the assertion is made
ItDec ==
  /\ Running
  /\ LET r == Rec("it_dec", it.ch, NULL, NULL, it, NullIt)
         d == decrement(Mem, it)
     IN  IF d.res = "ok"
         THEN Done(r, Mem, payload, alive, d.it)
         ELSE Abort(r, d.it)

\* operator*, operator->, value(), segment() on the iterator
ItDeref ==
  /\ Running
  /\ LET r == Rec("it_deref", it.ch, NULL, NULL, it, NullIt)
     IN  IF deref(it).res = "ok"
         THEN Done([r EXCEPT !.a = deref(it).seg], Mem, payload, alive, it)
         ELSE Abort(r, it)

\* chain::front(); the record holds the segment whose payload is returned
ChainFront(c) ==
  /\ Running /\ c \in Chains \cap alive
  /\ LET r == Rec("front", c, NULL, NULL, it, NullIt)
         f == front(Mem, c)
     IN  IF f.res = "ok"
         THEN Done([r EXCEPT !.a = f.seg], Mem, payload, alive, it)
         ELSE Abort(r, it)

\* chain::back()
ChainBack(c) ==
  /\ Running /\ c \in Chains \cap alive
  /\ LET r == Rec("back", c, NULL, NULL, it, NullIt)
         f == back(Mem, c)
     IN  IF f.res = "ok"
         THEN Done([r EXCEPT !.a = f.seg], Mem, payload, alive, it)
         ELSE Abort(r, it)

\* chain::operator[](idx) and segments()[idx]; the record holds the index
\* and the segment returned
ChainAt(c, idx) ==
  /\ Running /\ c \in Chains \cap alive
  /\ LET r == Rec("at", c, NULL, idx, it, NullIt)
         f == at(Mem, c, idx)
     IN  IF f.res = "ok"
         THEN Done([r EXCEPT !.a = f.seg], Mem, payload, alive, it)
         ELSE Abort(r, it)

\* iterator_range{b, e}.size(); the record holds the cursors and the result
RangeSize(b, e) ==
  /\ Running
  /\ LET r == Rec("range_size", b.ch, NULL, NULL, b, e)
         f == range_size(Mem, b, e)
     IN  CASE f.res = "ok" ->
                Done([r EXCEPT !.a = f.n], Mem, payload, alive, it)
           [] f.res = "abort" -> Abort(r, it)
           [] OTHER ->
                Done(r, [Mem EXCEPT !.stuck = TRUE], payload, alive, it)

\* ------------------------------------------------------------- event operations
\* on(ev, fn): HandlerType handler{fn}; ev.listeners.link_back(seg);
\* return handler;
On(l) == PlaceAt("on", listeners, end(listeners), l)

\* member_event_listener(bool rel): the listener is constructed and links
\* itself to the back of member_listeners (relative) or of listeners
MemberEventListener(l, rel) ==
  /\ Running /\ {member_listeners, listeners} \subseteq alive
  /\ l \in Segs \ alive
  /\ LET c == IF rel THEN member_listeners ELSE listeners
         r == Rec("member_event_listener", c, l, NULL, end(c), NullIt)
     IN  IF link_asserts(NullPtrs(Mem, l), c, end(c), l)
         THEN Done(r, link(NullPtrs(Mem, l), c, l),
                   [payload EXCEPT ![l] = l], alive \cup {l}, it)
         ELSE Abort(r, it)

\* try_fire(ev, args...); the record holds the argument and the calls made
TryFire(arg, taken) ==
  /\ Running /\ {member_listeners, listeners} \subseteq alive
  /\ LET f == try_fire(Mem, arg, taken)
         r == [Rec("try_fire", listeners, arg, NULL, NullIt, NullIt)
                 EXCEPT !.calls = f.calls]
     IN  Done(r, [Mem EXCEPT !.stuck = f.res /= "ok"], payload, alive, it)

\* fire(ev, args...): HEAPFREE_ASSERT(try_fire(ev, args...))
Fire(arg, taken) ==
  /\ Running /\ {member_listeners, listeners} \subseteq alive
  /\ LET f == try_fire(Mem, arg, taken)
         r == [Rec("fire", listeners, arg, NULL, NullIt, NullIt)
                 EXCEPT !.calls = f.calls]
     IN  IF f.res = "ok" /\ ~f.ret
         THEN Abort(r, it)
         ELSE Done(r, [Mem EXCEPT !.stuck = f.res /= "ok"], payload, alive, it)

\* ------------------------------------------------------------- specification
InitWith(b, q) ==
  /\ next = [n \in Nodes |-> IF n \in Chains THEN n ELSE NULL]
  /\ prev = [n \in Nodes |-> IF n \in Chains THEN n ELSE NULL]
  /\ payload = [s \in Segs |-> NULL]
  /\ alive = Chains
  /\ it = NullIt
  /\ last = NoRec
  /\ pre = NoSnapshot
  /\ halted = FALSE
  /\ budget = b
  /\ ref = q

\* The chains are constructed and empty; no segment is constructed yet.
Init == InitWith(0, NoRef)

\* The iterators a caller can hold: iterator(), end(), begin(), and one made
\* for a segment (link's result, make_chain_it, unsafe_make_chain_it)
Positions(c) ==
  {NullIt} \cup {end(d) : d \in Chains} \cup {begin(Mem, c)}
    \cup {MkIt(c, s) : s \in Segs \cap alive}

SegOps ==
  \/ \E s \in MainSegs : SegConstruct(s)
  \/ \E d, s \in MainSegs : SegCopyConstruct(d, s)
  \/ \E d, s \in MainSegs : SegCopyAssign(d, s)
  \/ \E d, s \in MainSegs : SegMoveConstruct(d, s)
  \/ \E d, s \in MainSegs : SegMoveAssign(d, s)
  \/ \E a, b \in MainSegs : SegSwap(a, b)
  \/ \E s \in MainSegs : SegUnlink(s)
  \/ \E s \in MainSegs : SegDestroy(s)

ChainOps ==
  \/ \E c \in Chains : ChainConstruct(c)
  \/ \E c \in Chains : ChainDestroy(c)
  \/ \E d, s \in Chains : ChainMoveConstruct(d, s)
  \/ \E d, s \in Chains : ChainMoveAssign(d, s)
  \/ \E a, b \in Chains : ChainSwap(a, b)
  \/ \E c \in Chains : Clear(c)
  \/ \E c \in Chains, s \in MainSegs : \E pos \in Positions(c) : Link(c, pos, s)
  \/ \E c \in Chains, s \in MainSegs : LinkBack(c, s)
  \/ \E c \in Chains, s \in MainSegs : LinkFront(c, s)
  \/ \E c \in Chains : \E pos \in Positions(c) : ChainUnlink(c, pos)
  \/ \E c \in Chains, d \in MainSegs : \E pos \in Positions(c) : Place(c, pos, d)
  \/ \E c \in Chains, d \in MainSegs : PlaceBack(c, d)
  \/ \E c \in Chains, d \in MainSegs : PlaceFront(c, d)

Next == SegOps \/ ChainOps

Spec == Init /\ [][Next]_vars

\* SpecBug: segments are placed, copied, swapped and destroyed, and the run
\* is followed for MaxBad operations past the one that left the links
\* inconsistent.
InitBug == InitWith(MaxBad, NoRef)

NextBug ==
  \/ \E c \in Chains, d \in MainSegs : PlaceBack(c, d)
  \/ \E d, s \in MainSegs : SegCopyConstruct(d, s)
  \/ \E d, s \in MainSegs : SegCopyAssign(d, s)
  \/ \E a, b \in MainSegs : SegSwap(a, b)
  \/ \E s \in MainSegs : SegDestroy(s)
  \/ \E c \in Chains : ChainDestroy(c)

SpecBug == InitBug /\ [][NextBug]_vars

\* SpecSeq: one chain is driven by link_front, link_back, link, unlink and
\* clear, with the reference sequence run beside it.
RefChain == CHOOSE c \in Chains : \A d \in Chains : c <= d

InitSeq == InitWith(0, <<>>)

\* end() and an iterator to each segment of the ring
RingPositions(c) ==
  {end(c)} \cup {MkIt(c, segments(Mem, c).seq[k]) :
                   k \in 1..Len(segments(Mem, c).seq)}

NextSeq ==
  \/ \E s \in SeqSegs : SegConstruct(s)
  \/ \E s \in SeqSegs : LinkFront(RefChain, s)
  \/ \E s \in SeqSegs : LinkBack(RefChain, s)
  \/ \E s \in SeqSegs : \E pos \in RingPositions(RefChain) :
       Link(RefChain, pos, s)
  \/ \E pos \in RingPositions(RefChain) : ChainUnlink(RefChain, pos)
  \/ \E s \in SeqSegs : SegUnlink(s)
  \/ Clear(RefChain)

SpecSeq == InitSeq /\ [][NextSeq]_vars

\* Segments are placed into one chain, copied and destroyed; the run goes on
\* for MaxStale operations after a copy has left the links inconsistent.
InitCopy == InitWith(MaxStale, NoRef)

NextCopy ==
  \/ \E d \in MainSegs : PlaceBack(RefChain, d)
  \/ \E d, s \in MainSegs : SegCopyConstruct(d, s)
  \/ \E s \in MainSegs : SegDestroy(s)

SpecCopy == InitCopy /\ [][NextCopy]_vars

\* One iterator over one chain: it is obtained from begin(), end() or
\* make_chain_it, moved by ++ and --, while segments are linked and unlinked.
NextIt ==
  \/ \E s \in MainSegs : SegConstruct(s)
  \/ \E s \in MainSegs : LinkFront(RefChain, s)
  \/ \E s \in MainSegs : LinkBack(RefChain, s)
  \/ \E s \in MainSegs : \E pos \in RingPositions(RefChain) :
       Link(RefChain, pos, s)
  \/ \E pos \in RingPositions(RefChain) : ChainUnlink(RefChain, pos)
  \/ \E s \in MainSegs : SegUnlink(s)
  \/ ItDefault
  \/ ItBegin(RefChain)
  \/ ItEnd(RefChain)
  \/ \E s \in MainSegs : ItMake(RefChain, s)
  \/ \E s \in MainSegs : ItUnsafe(RefChain, s)
  \/ ItDeref
  \/ ItInc
  \/ ItDec
  \/ ChainFront(RefChain)
  \/ ChainBack(RefChain)
  \/ \E b \in RingPositions(RefChain) \cup {NullIt} :
       \E e \in RingPositions(RefChain) \cup {NullIt} : RangeSize(b, e)
  \/ \E idx \in 0..(NumSegs + 2) : ChainAt(RefChain, idx)

SpecIt == Init /\ [][NextIt]_vars

\* Checked iterator construction over two chains: segments are constructed,
\* linked into either chain and unlinked, and make_chain_it is called for
\* every pair of a chain and a segment.
NextMake ==
  \/ \E s \in MainSegs : SegConstruct(s)
  \/ \E c \in Chains, s \in MainSegs : LinkBack(c, s)
  \/ \E c \in Chains, s \in MainSegs : LinkFront(c, s)
  \/ \E s \in MainSegs : SegUnlink(s)
  \/ \E c \in Chains, s \in MainSegs : ItMake(c, s)

SpecMake == Init /\ [][NextMake]_vars

\* One event: listeners are registered by on() and as member listeners, go
\* out of scope, and the event is fired.  The reference sequence holds the
\* registered listeners in the order of their registration.
NextEvent ==
  \/ \E l \in MainSegs : On(l)
  \/ \E l \in MainSegs, rel \in BOOLEAN : MemberEventListener(l, rel)
  \/ \E l \in MainSegs : SegDestroy(l)
  \/ \E arg \in ArgValues : \E taken \in SUBSET (Segs \cap alive) :
       TryFire(arg, taken)
  \/ \E arg \in ArgValues : \E taken \in SUBSET (Segs \cap alive) :
       Fire(arg, taken)

SpecEvent == InitSeq /\ [][NextEvent]_vars

\* The legal calls: every operation but segment copy and segment::swap,
\* link and unlink with iterators of the chain they are called on.
NextLegal ==
  \/ \E s \in MainSegs : SegConstruct(s)
  \/ \E d, s \in MainSegs : SegMoveConstruct(d, s)
  \/ \E d, s \in MainSegs : SegMoveAssign(d, s)
  \/ \E a, b \in MainSegs : SegStdSwap(a, b)
  \/ \E s \in MainSegs : SegUnlink(s)
  \/ \E s \in MainSegs : SegDestroy(s)
  \/ \E c \in Chains : ChainConstruct(c)
  \/ \E c \in Chains : ChainDestroy(c)
  \/ \E d, s \in Chains : ChainMoveConstruct(d, s)
  \/ \E d, s \in Chains : ChainMoveAssign(d, s)
  \/ \E a, b \in Chains : ChainSwap(a, b)
  \/ \E c \in Chains : Clear(c)
  \/ \E c \in Chains, s \in MainSegs : \E pos \in RingPositions(c) :
       Link(c, pos, s)
  \/ \E c \in Chains, s \in MainSegs : LinkBack(c, s)
  \/ \E c \in Chains, s \in MainSegs : LinkFront(c, s)
  \/ \E c \in Chains : \E pos \in RingPositions(c) \ {end(c)} :
       ChainUnlink(c, pos)
  \/ \E c \in Chains, d \in MainSegs : \E pos \in RingPositions(c) :
       Place(c, pos, d)

SpecLegal == Init /\ [][NextLegal]_vars

\* Whole-chain operations: segments are constructed and linked, chains are
\* cleared, moved, swapped, destroyed and constructed again.
NextChain ==
  \/ \E s \in MainSegs : SegConstruct(s)
  \/ \E c \in Chains, s \in MainSegs : LinkBack(c, s)
  \/ \E c \in Chains, s \in MainSegs : LinkFront(c, s)
  \/ \E c \in Chains : Clear(c)
  \/ \E c \in Chains : ChainDestroy(c)
  \/ \E c \in Chains : ChainConstruct(c)
  \/ \E d, s \in Chains : ChainMoveConstruct(d, s)
  \/ \E d, s \in Chains : ChainMoveAssign(d, s)
  \/ \E a, b \in Chains : ChainSwap(a, b)
  \/ \E a, b \in Chains : ChainStdSwap(a, b)

SpecChain == Init /\ [][NextChain]_vars

\* ------------------------------------------------------------- reading a state
\* The link fields before the observed operation
PreMem ==
  [next |-> pre.next, prev |-> pre.prev, fault |-> FALSE, stuck |-> FALSE]

\* An operation of the set ops was observed.
Observed(ops) == last.op \in ops

\* The ring of chain c as a sequence of nodes, read along next
Ring(M, c) == segments(M, c).seq

InSeq(x, q) == \E k \in 1..Len(q) : q[k] = x

Reverse(q) == [k \in 1..Len(q) |-> q[Len(q) + 1 - k]]

\* q with the nodes a and b exchanged
Exchange(q, a, b) ==
  [k \in 1..Len(q) |->
     IF q[k] = a THEN b ELSE IF q[k] = b THEN a ELSE q[k]]

\* q with node a replaced by node b
Replace(q, a, b) == [k \in 1..Len(q) |-> IF q[k] = a THEN b ELSE q[k]]

\* Both walks of chain c end at the sentinel and agree.
WellFormed(M, c) ==
  /\ segments(M, c).res = "ok"
  /\ rsegments(M, c).res = "ok"
  /\ rsegments(M, c).seq = Reverse(segments(M, c).seq)

\* ------------------------------------------------------------- claims C1 - C3
\* C1: after any sequence of completed public operations (segment copy and
\* swap among them) every linked live node n, a chain sentinel or a segment
\* with is_linked() true, has n.next.prev = n and n.prev.next = n.
C1_LinksMutual ==
  \A n \in alive :
    (n \in Chains \/ is_linked(Mem, n)) =>
      /\ next[n] /= NULL /\ prev[n] /= NULL
      /\ prev[next[n]] = n
      /\ next[prev[n]] = n

\* C2: in every reachable state, for every chain, the walk along next from
\* the sentinel returns to the sentinel, the walk along prev visits the same
\* segments in reverse order, and every linked segment is met by the walk of
\* exactly one chain, once.
C2_RingWalk ==
  /\ \A c \in Chains \cap alive : WellFormed(Mem, c)
  /\ \A s \in Segs \cap alive :
       is_linked(Mem, s) =>
         Cardinality({c \in Chains \cap alive : InSeq(s, Ring(Mem, c))}) = 1

\* C3: in every reachable state no live node has a next or prev pointer
\* that refers to a destroyed segment or chain.
C3_NoDangling ==
  \A n \in alive :
    /\ next[n] \in alive \cup {NULL}
    /\ prev[n] \in alive \cup {NULL}

\* Every chain of the state (M, alv) is a well-formed ring, every linked
\* segment lies in the ring of exactly one chain, and no pointer leaves alv.
RingsIntact(M, alv) ==
  /\ \A n \in alv :
       /\ M.next[n] \in alv \cup {NULL}
       /\ M.prev[n] \in alv \cup {NULL}
  /\ \A c \in Chains \cap alv : WellFormed(M, c)
  /\ \A s \in Segs \cap alv :
       /\ M.next[s] = NULL <=> M.prev[s] = NULL
       /\ is_linked(M, s) =>
            Cardinality({c \in Chains \cap alv : InSeq(s, Ring(M, c))}) = 1

PreIntact == RingsIntact(PreMem, pre.alive)

\* No link field of a node that existed before the operation has changed.
LinksKept == \A n \in pre.alive : next[n] = pre.next[n] /\ prev[n] = pre.prev[n]

\* ------------------------------------------------------------- claims C4 - C6
\* C4: copy-constructing a segment from any source, linked or not, yields a
\* segment with is_linked() false that holds a copy of the payload and is in
\* no ring; the source and every ring are unchanged, and destroying the copy
\* afterwards changes no ring.
C4_CopyConstructUnlinked ==
  Observed({"seg_copy_construct"}) =>
    /\ ~is_linked(Mem, last.a)
    /\ payload[last.a] = payload[last.b]
    /\ \A c \in Chains \cap alive : ~InSeq(last.a, Ring(Mem, c))
    /\ LinksKept
    /\ LET M == seg_destroy(Mem, last.a)
       IN  \A n \in alive \ {last.a} :
             M.next[n] = next[n] /\ M.prev[n] = prev[n]

\* C5: copy-assignment d = s copies only the payload: d has the payload of
\* s, d stays linked where it was or stays unlinked, and s and every ring
\* are unchanged.
C5_CopyAssignPayloadOnly ==
  Observed({"seg_copy_assign"}) =>
    /\ payload[last.a] = pre.payload[last.b]
    /\ \A s \in Segs \ {last.a} : payload[s] = pre.payload[s]
    /\ LinksKept

\* C6: segment swap exchanges the ring positions of a and b in every
\* configuration (apart, adjacent, in different chains, exactly one linked):
\* every ring is the ring before with a and b exchanged, so sizes are
\* unchanged, and the payloads are exchanged.
C6_SwapExchangesPositions ==
  (Observed({"seg_swap"}) /\ PreIntact) =>
    /\ last.res = "ok"
    /\ \A c \in Chains \cap alive :
         /\ WellFormed(Mem, c)
         /\ Ring(Mem, c) = Exchange(Ring(PreMem, c), last.a, last.b)
    /\ is_linked(Mem, last.a) = is_linked(PreMem, last.b)
    /\ is_linked(Mem, last.b) = is_linked(PreMem, last.a)
    /\ payload[last.a] = pre.payload[last.b]
    /\ payload[last.b] = pre.payload[last.a]

\* ------------------------------------------------------------ claims C7 - C10
MoveOps == {"seg_move_construct", "seg_move_assign"}

\* A segment move whose source is linked and whose destination is a new
\* segment or an unlinked one was observed.
MoveOfLinked ==
  /\ Observed(MoveOps) /\ PreIntact
  /\ last.a /= last.b
  /\ is_linked(PreMem, last.b)
  /\ last.op = "seg_move_assign" => ~is_linked(PreMem, last.a)

\* C7: move-constructing a segment from a linked source, or move-assigning
\* a linked source onto an unlinked destination, leaves the destination in
\* the source's place (same predecessor and successor, which now point at
\* the destination) and the source unlinked; the size of the chain and the
\* order of the other segments are unchanged.
C7_MoveTakesPosition ==
  MoveOfLinked =>
    LET d == last.a
        s == last.b
        p == pre.prev[s]
        n == pre.next[s]
    IN  /\ last.res = "ok"
        /\ prev[d] = p /\ next[d] = n
        /\ next[p] = d /\ prev[n] = d
        /\ ~is_linked(Mem, s) /\ prev[s] = NULL
        /\ \A c \in Chains \cap alive :
             /\ WellFormed(Mem, c)
             /\ Ring(Mem, c) = Replace(Ring(PreMem, c), s, d)
             /\ size(Mem, c) = size(PreMem, c)

C7_Witness ==
  /\ MoveOfLinked /\ last.op = "seg_move_assign" /\ last.res = "ok"
  /\ \E c \in Chains \cap alive :
       /\ Len(Ring(Mem, c)) = 2
       /\ Ring(Mem, c)[2] = last.a

\* C8: for any sequence of link_front, link_back, link(pos, seg),
\* chain.unlink(it), segment.unlink() and clear() on a chain, the order read
\* by segments(), by iteration over the values and by operator[] is the
\* reference sequence (insert at front, at back, before pos; remove; empty),
\* and size() is its length.  Linking A at the front, B at the front, C at
\* the back and D before C gives B, A, D, C.
C8_OrderMatchesReference ==
  ref /= NoRef =>
    /\ segments(Mem, RefChain).res = "ok"
    /\ segments(Mem, RefChain).seq = ref
    /\ rsegments(Mem, RefChain).seq = Reverse(ref)
    /\ size(Mem, RefChain) = Len(ref)
    /\ \A k \in 1..Len(ref) :
         /\ at(Mem, RefChain, k - 1) = [res |-> "ok", seg |-> ref[k]]
         /\ payload[at(Mem, RefChain, k - 1).seg] = ref[k]

\* The example of the claim, with A, B, C, D the first four segments
C8_Witness ==
  LET A == NumChains + 1
      B == NumChains + 2
      C == NumChains + 3
      D == NumChains + 4
  IN  /\ last.op = "link" /\ last.res = "ok"
      /\ last.a = D /\ last.pos = MkIt(RefChain, C)
      /\ PreMem.next[RefChain] = B /\ PreMem.next[B] = A /\ PreMem.next[A] = C
      /\ ref = <<B, A, D, C>>
      /\ segments(Mem, RefChain).seq = <<B, A, D, C>>

LinkOps == {"link", "link_front", "link_back"}

\* pos is an iterator of chain c that refers to its end or to one of the
\* segments of its ring.
ValidPos(M, c, pos) ==
  /\ pos.ch = c
  /\ pos.pt = c \/ InSeq(pos.pt, Ring(M, c))

\* A link of an unlinked segment at a valid position was observed.
LinkOfUnlinked ==
  /\ Observed(LinkOps) /\ PreIntact
  /\ ~is_linked(PreMem, last.a)
  /\ ValidPos(PreMem, last.c, last.pos)

\* C9: link(pos, seg) with seg unlinked and pos a valid iterator of this
\* chain (end included) makes the node of pos the successor of seg and the
\* former predecessor of that node the predecessor of seg, grows the size by
\* one, and returns an iterator of this chain that refers to seg.
C9_LinkInserts ==
  LinkOfUnlinked =>
    LET c == last.c
        s == last.a
        n == last.pos.pt
        p == pre.prev[n]
    IN  /\ last.res = "ok"
        /\ next[s] = n /\ prev[n] = s
        /\ prev[s] = p /\ next[p] = s
        /\ WellFormed(Mem, c)
        /\ size(Mem, c) = size(PreMem, c) + 1
        /\ last.ret = MkIt(c, s)

C9_Witness ==
  /\ LinkOfUnlinked /\ last.op = "link" /\ last.res = "ok"
  /\ last.pos.pt \in Segs
  /\ pre.prev[last.pos.pt] \in Segs
  /\ size(Mem, last.c) = 3

\* A link of a linked segment, or at a position of another chain (or of no
\* chain), was observed.
LinkMisuse ==
  /\ Observed(LinkOps)
  /\ is_linked(PreMem, last.a) \/ last.pos.ch /= last.c

\* C10: link raises a fatal contract violation if seg is already linked,
\* into this chain or any other, or if pos belongs to a different chain;
\* nothing is linked.
C10_LinkRejects ==
  LinkMisuse =>
    /\ last.res = "abort"
    /\ last.ret = NullIt
    /\ next = pre.next /\ prev = pre.prev
    /\ payload = pre.payload /\ alive = pre.alive

C10_Witness ==
  /\ LinkMisuse /\ last.op = "link" /\ last.res = "abort"
  /\ is_linked(PreMem, last.a)
  /\ last.pos = end(last.c)
  /\ ~InSeq(last.a, Ring(PreMem, last.c))

\* ----------------------------------------------------------- claims C11 - C13
\* q without the node x
Without(q, x) == SelectSeq(q, LAMBDA y : y /= x)

\* The node after x in the ring of c read as a sequence, the sentinel after
\* the last one
Successor(M, c, x) ==
  LET q == Ring(M, c)
      k == CHOOSE j \in 1..Len(q) : q[j] = x
  IN  IF k = Len(q) THEN c ELSE q[k + 1]

\* Every chain but c has the ring it had before the operation.
OtherRingsKept(c) ==
  \A d \in (Chains \cap alive) \ {c} : Ring(Mem, d) = Ring(PreMem, d)

\* chain.unlink(it) was observed with it an iterator of this chain that
\* refers to a segment of its ring.
UnlinkOfMember ==
  /\ Observed({"chain_unlink"}) /\ PreIntact
  /\ last.pos.pt \in Segs
  /\ ValidPos(PreMem, last.c, last.pos)

\* C11: chain.unlink(it), it referring to a segment linked into this chain,
\* removes exactly that segment: size() drops by one, the segment is no
\* longer linked, the others keep their order, and the iterator returned
\* refers to the segment that followed it, or is end() if it was the last.
C11_UnlinkRemovesOne ==
  UnlinkOfMember =>
    LET c == last.c
        s == last.a
    IN  /\ last.res = "ok"
        /\ ~is_linked(Mem, s) /\ prev[s] = NULL
        /\ WellFormed(Mem, c)
        /\ Ring(Mem, c) = Without(Ring(PreMem, c), s)
        /\ size(Mem, c) = size(PreMem, c) - 1
        /\ OtherRingsKept(c)
        /\ last.ret = MkIt(c, Successor(PreMem, c, s))

C11_Witness ==
  /\ UnlinkOfMember /\ last.res = "ok"
  /\ size(PreMem, last.c) = 3
  /\ Ring(PreMem, last.c)[2] = last.a
  /\ last.ret = MkIt(last.c, Ring(PreMem, last.c)[3])

\* chain.unlink(it) was observed with it referring to a segment that is
\* not in the ring of this chain: unlinked, or linked into another chain.
UnlinkOfStranger ==
  /\ Observed({"chain_unlink"}) /\ PreIntact
  /\ last.pos.pt \in Segs \cap pre.alive
  /\ ~InSeq(last.pos.pt, Ring(PreMem, last.c))

\* C12: chain.unlink(it) raises a fatal contract violation whenever the
\* segment it refers to is not linked into this chain (it is unlinked, or
\* linked into another chain), and then removes no segment from any chain.
C12_UnlinkRejectsStranger ==
  UnlinkOfStranger =>
    /\ last.res = "abort"
    /\ LinksKept

PlaceOps == {"place", "place_front", "place_back"}

WasLinked(s) == s \in pre.alive /\ is_linked(PreMem, s)

\* The observed operation links s: a link or place of s, a move into s
\* from a linked segment, a swap of s with a linked segment.
LinkingEvent(s) ==
  \/ Observed(LinkOps \cup PlaceOps) /\ last.a = s /\ last.res /= "abort"
  \/ Observed(MoveOps) /\ last.a = s /\ WasLinked(last.b)
  \/ Observed({"seg_swap"}) /\ last.a = s /\ WasLinked(last.b)
  \/ Observed({"seg_swap"}) /\ last.b = s /\ WasLinked(last.a)

\* The observed operation unlinks s: unlink() of s, chain.unlink of s, a
\* clear, destruction or overwriting move of the chain s is in, a move from
\* s, a move onto s or a swap of s with an unlinked segment.
UnlinkingEvent(s) ==
  \/ Observed({"seg_unlink", "chain_unlink"}) /\ last.a = s
  \/ /\ Observed({"clear", "chain_destroy", "chain_move_assign"})
     /\ InSeq(s, Ring(PreMem, last.c))
  \/ Observed(MoveOps) /\ last.b = s
  \/ Observed({"seg_move_assign"}) /\ last.a = s /\ ~WasLinked(last.b)
  \/ Observed({"seg_swap"}) /\ last.a = s /\ ~WasLinked(last.b)
  \/ Observed({"seg_swap"}) /\ last.b = s /\ ~WasLinked(last.a)

\* C13: segment.unlink() on a segment that is not linked raises a fatal
\* contract violation, and is_linked() is true exactly between a linking of
\* the segment and the next event that unlinks it: no other operation turns
\* is_linked() of a segment on or off.
C13_LinkedBetweenLinkAndUnlink ==
  (last /= NoRec /\ PreIntact) =>
    /\ (Observed({"seg_unlink"}) /\ ~WasLinked(last.a)) =>
         (last.res = "abort" /\ LinksKept)
    /\ \A s \in Segs \cap alive :
         /\ (is_linked(Mem, s) /\ ~WasLinked(s)) => LinkingEvent(s)
         /\ (~is_linked(Mem, s) /\ WasLinked(s)) => UnlinkingEvent(s)

\* ----------------------------------------------------------- claims C15 - C19
\* The segments of q are unlinked.
AllUnlinked(q) ==
  \A k \in 1..Len(q) : ~is_linked(Mem, q[k]) /\ prev[q[k]] = NULL

\* The sentinel of c refers to itself in both directions.
SelfReferential(c) == next[c] = c /\ prev[c] = c

\* The same segments exist, with the same payloads, as before.
SegmentsKept ==
  /\ alive \cap Segs = pre.alive \cap Segs
  /\ payload = pre.payload

\* C15: clear() on a chain with N linked segments leaves each of them with
\* is_linked() false and the chain empty (size() 0, sentinel referring to
\* itself), destroys no segment and changes no segment of another chain.
C15_ClearUnlinksAll ==
  (Observed({"clear"}) /\ PreIntact) =>
    LET c == last.c
    IN  /\ last.res = "ok"
        /\ AllUnlinked(Ring(PreMem, c))
        /\ empty(Mem, c) /\ size(Mem, c) = 0 /\ SelfReferential(c)
        /\ alive = pre.alive /\ payload = pre.payload
        /\ OtherRingsKept(c)
        /\ \A d \in (Chains \cap alive) \ {c} : WellFormed(Mem, d)

C15_Witness ==
  /\ Observed({"clear"}) /\ PreIntact /\ last.res = "ok"
  /\ size(PreMem, last.c) = 2
  /\ \E d \in (Chains \cap alive) \ {last.c} : size(Mem, d) = 1

ChainMoveOps == {"chain_move_construct", "chain_move_assign"}

\* Chain last.c was move-constructed or move-assigned from another chain
\* last.b.
ChainMoved == Observed(ChainMoveOps) /\ PreIntact /\ last.c /= last.b

\* The segments the chain c held before the operation
Former(c) == IF c \in pre.alive THEN Ring(PreMem, c) ELSE <<>>

\* C17: move-assigning or move-constructing chain B from chain A leaves B
\* with A's former segments in their order and A empty, leaves the segments
\* B held before unlinked, and creates or destroys no segment; whether A, B
\* or neither was empty.
C17_ChainMoveTransfers ==
  ChainMoved =>
    LET B == last.c
        A == last.b
    IN  /\ last.res = "ok"
        /\ WellFormed(Mem, B) /\ Ring(Mem, B) = Former(A)
        /\ empty(Mem, A) /\ SelfReferential(A) /\ size(Mem, A) = 0
        /\ AllUnlinked(Former(B))
        /\ SegmentsKept
        /\ \A d \in (Chains \cap alive) \ {A, B} :
             Ring(Mem, d) = Ring(PreMem, d)

C17_Witness ==
  /\ ChainMoved /\ last.op = "chain_move_assign" /\ last.res = "ok"
  /\ Len(Former(last.b)) = 2 /\ Len(Former(last.c)) = 1
  /\ size(Mem, last.c) = 2

ChainSwapOps == {"chain_swap", "chain_std_swap"}

\* C18: swapping two chains X and Y, by the member swap or by std::swap
\* through moves, leaves X with Y's former segments in order and Y with
\* X's, and is_linked() of every segment as it was; with both chains
\* empty, with one empty, with neither empty.
C18_ChainSwapExchanges ==
  (Observed(ChainSwapOps) /\ PreIntact) =>
    LET X == last.c
        Y == last.b
    IN  /\ last.res = "ok"
        /\ WellFormed(Mem, X) /\ Ring(Mem, X) = Ring(PreMem, Y)
        /\ WellFormed(Mem, Y) /\ Ring(Mem, Y) = Ring(PreMem, X)
        /\ \A s \in Segs \cap alive :
             is_linked(Mem, s) = is_linked(PreMem, s)
        /\ SegmentsKept
        /\ \A n \in Nodes : next[n] \in Ptrs /\ prev[n] \in Ptrs

C18_Witness ==
  /\ Observed({"chain_std_swap"}) /\ PreIntact /\ last.res = "ok"
  /\ last.c /= last.b
  /\ size(PreMem, last.c) = 2 /\ size(PreMem, last.b) = 1
  /\ size(Mem, last.c) = 1 /\ size(Mem, last.b) = 2

\* C16: in every reachable state, for every chain, these are equivalent:
\* empty() is true; size() is 0; begin() = end(); the sentinel's next is the
\* sentinel; the sentinel's prev is the sentinel.  A newly constructed chain
\* satisfies them all.
C16_EmptyEquivalences ==
  /\ \A c \in Chains \cap alive :
       LET e == empty(Mem, c)
       IN  /\ e <=> (segments(Mem, c).res = "ok" /\ size(Mem, c) = 0)
           /\ e <=> (begin(Mem, c) = end(c))
           /\ e <=> (next[c] = c)
           /\ e <=> (prev[c] = c)
  /\ Observed({"chain_construct"}) =>
       (empty(Mem, last.c) /\ size(Mem, last.c) = 0 /\ SelfReferential(last.c))

\* q with x inserted before the node at (at the end if at is the sentinel)
InsertBefore(q, node, x) ==
  IF ~InSeq(node, q) THEN Append(q, x)
  ELSE LET i == CHOOSE k \in 1..Len(q) : q[k] = node
       IN  SubSeq(q, 1, i - 1) \o <<x>> \o SubSeq(q, i, Len(q))

\* place, place_front or place_back was observed at a valid position of
\* the chain.
PlaceAtValid ==
  /\ Observed(PlaceOps) /\ PreIntact
  /\ ValidPos(PreMem, last.c, last.pos)

\* C19: place(pos, args...), place_front and place_back return a segment
\* that is linked into the chain immediately before pos; the size has grown
\* by one, and the ring refers to the returned segment only, not to a
\* temporary segment created inside place.
C19_PlaceLinksReturned ==
  PlaceAtValid =>
    LET c == last.c
        d == last.a
        n == last.pos.pt
        p == pre.prev[n]
    IN  /\ last.res = "ok"
        /\ d \in alive /\ is_linked(Mem, d) /\ payload[d] = d
        /\ next[d] = n /\ prev[n] = d
        /\ prev[d] = p /\ next[p] = d
        /\ WellFormed(Mem, c)
        /\ Ring(Mem, c) = InsertBefore(Ring(PreMem, c), n, d)
        /\ size(Mem, c) = size(PreMem, c) + 1
        /\ OtherRingsKept(c)
        /\ alive = pre.alive \cup {d}
        /\ \A x \in alive : next[x] \in alive \cup {NULL}
                            /\ prev[x] \in alive \cup {NULL}

\* place built the segment at another address and moved it to the caller
C19_Witness ==
  /\ PlaceAtValid /\ last.op = "place" /\ last.res = "ok"
  /\ last.b \in Segs \ alive
  /\ last.pos.pt \in Segs
  /\ size(Mem, last.c) = 3
  /\ Ring(Mem, last.c)[2] = last.a

\* ------------------------------------------------------ claims C14 and C20
\* C14: when an operation raises a contract violation it has modified
\* nothing: the next and prev pointers of every chain and segment, and the
\* position of the iterator it was invoked on, are as before the call.
C14_ViolationChangesNothing ==
  (last /= NoRec /\ last.res = "abort") =>
    /\ next = pre.next /\ prev = pre.prev
    /\ alive = pre.alive /\ payload = pre.payload
    /\ it = pre.it

\* A segment other than the one the iterator refers to was linked or
\* unlinked while the iterator referred to a segment of the ring.
OtherSegmentMoved ==
  /\ Observed(LinkOps \cup {"chain_unlink", "seg_unlink"})
  /\ last.res = "ok" /\ PreIntact
  /\ pre.it.ch \in Chains /\ pre.it.pt \in Segs
  /\ InSeq(pre.it.pt, Ring(PreMem, pre.it.ch))
  /\ last.a /= pre.it.pt

\* C20: an iterator obtained for segment S keeps referring to S while other
\* segments are linked into or unlinked from the chain: dereferencing it
\* yields S, and incrementing it yields the current successor of S; after D
\* is inserted directly behind S the incremented iterator refers to D.
C20_IteratorStaysOnSegment ==
  OtherSegmentMoved =>
    LET c == pre.it.ch
        S == pre.it.pt
    IN  /\ it = pre.it
        /\ deref(it) = [res |-> "ok", seg |-> S]
        /\ InSeq(S, Ring(Mem, c))
        /\ advance(Mem, it, 1) = MkIt(c, Successor(Mem, c, S))
        /\ (Observed(LinkOps) /\ last.pos.pt = Successor(PreMem, c, S)) =>
             deref(advance(Mem, it, 1)) = [res |-> "ok", seg |-> last.a]

\* The example: the iterator is at A, C follows A, D is linked before C.
C20_Witness ==
  /\ OtherSegmentMoved /\ last.op = "link"
  /\ last.pos.pt \in Segs
  /\ last.pos.pt = Successor(PreMem, pre.it.ch, pre.it.pt)
  /\ advance(Mem, it, 1) = MkIt(last.c, last.a)
  /\ advance(Mem, it, 2) = last.pos

\* ----------------------------------------------------------- claims C21 - C24
\* The node before x in the ring of c read as a sequence, the sentinel
\* before the first one
Predecessor(M, c, x) ==
  LET q == Ring(M, c)
      k == CHOOSE j \in 1..Len(q) : q[j] = x
  IN  IF k = 1 THEN c ELSE q[k - 1]

\* The segment the iterator refers to was unlinked and has now been linked
\* into the iterator's chain again.
Relinked ==
  /\ Observed(LinkOps) /\ last.res = "ok" /\ PreIntact
  /\ pre.it = MkIt(last.c, last.a)
  /\ ValidPos(PreMem, last.c, last.pos)

\* C21: an iterator that referred to segment S of chain C is valid again
\* once S, after having been unlinked, is linked back into C at any
\* position: it dereferences to S, equals a fresh iterator to S, and ++ and
\* -- move it to the current neighbours of S.
C21_RelinkRevalidates ==
  Relinked =>
    LET c == last.c
        S == last.a
    IN  /\ it = pre.it
        /\ deref(it) = [res |-> "ok", seg |-> S]
        /\ chain_is_valid(Mem, MkIt(c, S)) = "true"
        /\ it_eq(it, MkIt(c, S)) /\ it_eq(it, last.ret)
        /\ advance(Mem, it, 1) = MkIt(c, Successor(Mem, c, S))
        /\ Successor(Mem, c, S) = last.pos.pt
        /\ IF Predecessor(Mem, c, S) = c
           THEN decrement(Mem, it).res = "abort"
           ELSE decrement(Mem, it) =
                  [res |-> "ok", it |-> MkIt(c, Predecessor(Mem, c, S))]

C21_Witness ==
  /\ Relinked /\ last.op = "link"
  /\ size(Mem, last.c) = 3
  /\ Ring(Mem, last.c)[2] = last.a
  /\ decrement(Mem, it).res = "ok"

\* The iterator was, before the observed operation, at a segment of the
\* ring of its chain.
WasInterior ==
  /\ PreIntact /\ pre.it.ch \in Chains \cap pre.alive
  /\ InSeq(pre.it.pt, Ring(PreMem, pre.it.ch))

\* The iterator was at end() of its chain.
WasAtEnd ==
  /\ PreIntact /\ pre.it.ch \in Chains \cap pre.alive
  /\ pre.it = end(pre.it.ch)

\* C22: incrementing an interior iterator moves it to the next segment in
\* ring order, or to end() from the last segment; incrementing an iterator
\* at end(), and dereferencing an iterator at end() through *, ->, value()
\* or segment(), raise a fatal contract violation.
C22_IncrementAndEnd ==
  /\ (Observed({"it_inc"}) /\ WasInterior) =>
       /\ last.res = "ok"
       /\ it = MkIt(pre.it.ch, Successor(PreMem, pre.it.ch, pre.it.pt))
  /\ (Observed({"it_inc", "it_deref"}) /\ WasAtEnd) =>
       /\ last.res = "abort"
       /\ it = pre.it
  /\ (Observed({"it_deref"}) /\ WasInterior) =>
       /\ last.res = "ok" /\ last.a = pre.it.pt /\ it = pre.it

C22_Witness ==
  /\ Observed({"it_inc"}) /\ WasAtEnd /\ last.res = "abort"
  /\ size(Mem, it.ch) = 2

\* The iterator was, before the observed operation, at a valid position of
\* its chain: at a segment of the ring or at end().
WasValid ==
  /\ PreIntact /\ pre.it.ch \in Chains \cap pre.alive
  /\ ValidPos(PreMem, pre.it.ch, pre.it)

\* C23: decrementing an iterator moves it from an interior position to the
\* previous segment and from end() of a non-empty chain to the last segment;
\* decrementing an iterator at begin(), the begin() == end() of an empty
\* chain included, raises a fatal contract violation.
C23_DecrementAndBegin ==
  (Observed({"it_dec"}) /\ WasValid) =>
    LET c == pre.it.ch
        q == Ring(PreMem, c)
    IN  IF pre.it = begin(PreMem, c)
        THEN last.res = "abort"
        ELSE /\ last.res = "ok"
             /\ it = MkIt(c, IF pre.it = end(c) THEN q[Len(q)]
                             ELSE Predecessor(PreMem, c, pre.it.pt))

C23_Witness ==
  /\ Observed({"it_dec"}) /\ WasValid
  /\ pre.it = begin(PreMem, pre.it.ch) /\ pre.it /= end(pre.it.ch)
  /\ last.res = "abort"

\* The iterator values a program can hold: the default-constructed one, the
\* iterator of the model, and every pair of a chain and a node, as begin(),
\* end(), make_chain_it and unsafe_make_chain_it build them.
IteratorValues ==
  {NullIt, it} \cup {MkIt(c, p) : c \in Chains, p \in Nodes}

\* C24: two iterators compare equal iff they reference the same chain and
\* the same link node; a default-constructed iterator equals only another
\* default-constructed iterator and differs from end() of every chain; end()
\* of a chain equals end() of the same chain, and begin() == end() iff the
\* chain is empty.
C24_IteratorEquality ==
  /\ \A i \in IteratorValues, j \in IteratorValues :
       it_eq(i, j) <=> (i.ch = j.ch /\ i.pt = j.pt)
  /\ \A i \in IteratorValues : it_eq(NullIt, i) <=> (i = NullIt)
  /\ \A c \in Chains \cap alive :
       /\ ~it_eq(NullIt, end(c))
       /\ it_eq(end(c), end(c))
       /\ it_eq(begin(Mem, c), end(c)) <=> empty(Mem, c)
       /\ RingsIntact(Mem, alive) =>
            (it_eq(begin(Mem, c), end(c)) <=> size(Mem, c) = 0)

C24_Witness ==
  /\ Observed({"unsafe_make_chain_it"}) /\ RingsIntact(Mem, alive)
  /\ it_eq(it, begin(Mem, it.ch))
  /\ ~it_eq(begin(Mem, it.ch), end(it.ch))
  /\ size(Mem, it.ch) = 2

\* ------------------------------------------------------------- claims C25 - C30
\* The chains that held segment s in their ring before the operation
HomeChains(s) == {d \in Chains \cap pre.alive : InSeq(s, Ring(PreMem, d))}

\* C25: make_chain_it(chain, seg) succeeds iff seg is linked into that chain;
\* it raises a fatal contract violation when seg is unlinked and when seg is
\* linked into a different chain, and its membership walk examines at most
\* the nodes of the ring seg is in.
C25_MakeChainItChecks ==
  (Observed({"make_chain_it"}) /\ PreIntact) =>
    LET c == last.c  s == last.a
    IN  /\ last.res \in {"ok", "abort"}
        /\ last.res = "ok" <=> c \in HomeChains(s)
        /\ last.res = "ok" => it = MkIt(c, s) /\ last.ret = MkIt(c, s)
        /\ last.res = "abort" => it = pre.it
        /\ ~is_linked(PreMem, s) =>
             /\ last.res = "abort"
             /\ chain_is_valid_visits(PreMem, MkIt(c, s)) = 0
        /\ \A d \in HomeChains(s) :
             /\ d /= c => last.res = "abort"
             /\ chain_is_valid_visits(PreMem, MkIt(c, s))
                  <= Len(Ring(PreMem, d)) + 1

C25_Witness ==
  /\ Observed({"make_chain_it"}) /\ PreIntact
  /\ last.res = "abort"
  /\ \E d \in HomeChains(last.a) :
       /\ d /= last.c
       /\ Len(Ring(PreMem, d)) = 2
       /\ chain_is_valid_visits(PreMem, MkIt(last.c, last.a)) = 3

\* C26: front() and back() on an empty chain raise a fatal contract
\* violation; on a non-empty chain front() returns the payload of the segment
\* right after the sentinel and back() the payload of the segment right
\* before it, the objects operator[](0) and operator[](size() - 1) return.
C26_FrontBack ==
  (Observed({"front", "back"}) /\ PreIntact) =>
    LET c == last.c
        n == size(PreMem, c)
        first == PreMem.next[c]
        final == PreMem.prev[c]
    IN  /\ n = 0 => last.res = "abort"
        /\ n > 0 =>
             /\ last.res = "ok"
             /\ last.op = "front" =>
                  /\ last.a = first
                  /\ at(PreMem, c, 0) = [res |-> "ok", seg |-> last.a]
                  /\ payload[last.a] = pre.payload[first]
             /\ last.op = "back" =>
                  /\ last.a = final
                  /\ at(PreMem, c, n - 1) = [res |-> "ok", seg |-> last.a]
                  /\ payload[last.a] = pre.payload[final]
        /\ it = pre.it /\ LinksKept

C26_Witness ==
  /\ Observed({"back"}) /\ PreIntact /\ last.res = "ok"
  /\ size(PreMem, last.c) = 3
  /\ last.a = Ring(PreMem, last.c)[3]

\* C27: in every reachable state size(), clear(), a full iteration from
\* begin() to end() and the destruction of a chain terminate after visiting
\* at most N + 1 nodes, N the number of segments linked into the chain: the
\* walk along next comes back to the sentinel, meets no node twice, and the
\* loop of clear() ends at the sentinel.
C27_WalksTerminate ==
  \A c \in Chains \cap alive :
    /\ segments(Mem, c).res = "ok"
    /\ Cardinality({Ring(Mem, c)[k] : k \in 1..size(Mem, c)}) = size(Mem, c)
    /\ size(Mem, c) <= Cardinality({s \in Segs \cap alive : is_linked(Mem, s)})
    /\ ~clear(Mem, c).stuck

\* The operations that work on links only
LinkOnlyOps ==
  LinkOps \cup ChainMoveOps \cup ChainSwapOps
    \cup {"chain_unlink", "seg_unlink", "clear", "chain_destroy"}

\* C28: link, link_front, link_back, chain.unlink, segment.unlink, clear,
\* chain move, chain swap and chain destruction change next/prev pointers
\* only: every segment is still there and holds the payload it held before
\* the operation.
C28_PayloadUntouched ==
  Observed(LinkOnlyOps) =>
    \A s \in Segs \cap pre.alive :
      s \in alive /\ payload[s] = pre.payload[s]

C28_Witness ==
  /\ Observed({"clear"}) /\ PreIntact /\ last.res = "ok"
  /\ size(PreMem, last.c) = 2
  /\ \A s \in Segs \cap pre.alive : payload[s] /= NULL
  /\ ~LinksKept

\* C29: linking an unlinked segment at any valid position of a chain and
\* unlinking it again at once, by chain.unlink of the returned iterator or
\* by segment.unlink(), restores the size of the chain and every next/prev
\* pointer of the sentinel and of all other segments to their values before
\* the link, and leaves the segment unlinked.
C29_LinkUnlinkRoundTrip ==
  (LinkOfUnlinked /\ last.res = "ok") =>
    LET c == last.c
        s == last.a
        M2 == seg_unlink(Mem, s)
    IN  /\ is_linked(Mem, s)
        /\ last.ret = MkIt(c, s)
        /\ unlink_asserts(Mem, c, last.ret)
        /\ size(Mem, c) = size(PreMem, c) + 1
        /\ ~M2.fault
        /\ \A n \in pre.alive :
             M2.next[n] = pre.next[n] /\ M2.prev[n] = pre.prev[n]
        /\ size(M2, c) = size(PreMem, c)
        /\ Ring(M2, c) = Ring(PreMem, c)
        /\ ~is_linked(M2, s)

C29_Witness ==
  /\ LinkOfUnlinked /\ last.res = "ok" /\ last.op = "link"
  /\ size(PreMem, last.c) = 3
  /\ last.pos.pt = Ring(PreMem, last.c)[2]
  /\ Ring(seg_unlink(Mem, last.a), last.c) = Ring(PreMem, last.c)

\* C30: each fire of an event invokes every listener registered on that
\* event exactly once, with the fired arguments, and the listeners are
\* invoked in the order in which they were registered.
C30_FireInRegistrationOrder ==
  (Observed({"try_fire", "fire"}) /\ PreIntact) =>
    last.calls = [k \in 1..Len(ref) |-> [l |-> ref[k], arg |-> last.a]]

\* ------------------------------------------------------------- claims C31 - C36
\* C31: fire() on an event with no registered listener raises a fatal
\* failure, try_fire() on such an event returns false without a failure;
\* try_fire() returns true iff at least one listener, lambda or member
\* listener, is registered, and then fire() does not fail.
C31_FireWithoutListeners ==
  (Observed({"try_fire", "fire"}) /\ PreIntact) =>
    LET f == try_fire(PreMem, last.a, {})
    IN  /\ f.ret <=> Len(ref) > 0
        /\ last.op = "try_fire" => last.res = "ok"
        /\ last.op = "fire" => (last.res = "abort" <=> Len(ref) = 0)
        /\ last.op = "fire" => (last.res = "ok" <=> f.ret)
        /\ Len(ref) = 0 => last.calls = <<>>
        /\ LinksKept

C31_Witness ==
  /\ Observed({"fire"}) /\ PreIntact
  /\ last.res = "abort" /\ Len(ref) = 0
  /\ Cardinality(alive \cap Segs) = 0

\* k increments lead from cursor b to cursor e.
Increments(M, b, e, k) ==
  /\ advance(M, b, k) = e
  /\ k = 0 \/ nonull(e)

\* C32: iterator_range::size() returns the number of increments needed to
\* get from its begin cursor to its end cursor, and returns 0, with empty()
\* true, when begin == end: for a range of two default-constructed cursors
\* and for the range over an empty chain in particular.
C32_RangeSize ==
  (Observed({"range_size"}) /\ PreIntact) =>
    LET b == last.pos
        e == last.ret
        reach == {k \in 0..Fuel : Increments(PreMem, b, e, k)}
    IN  /\ b = e =>
             /\ last.res = "ok" /\ last.a = 0
             /\ range_empty(b, e)
        /\ reach /= {} =>
             /\ last.res = "ok"
             /\ last.a \in reach
             /\ \A k \in reach : last.a <= k
             /\ range_empty(b, e) <=> last.a = 0
        /\ \A c \in Chains \cap pre.alive :
             (b = begin(PreMem, c) /\ e = end(c)) =>
               last.a = size(PreMem, c)
        /\ LinksKept /\ it = pre.it

C32_Witness ==
  /\ Observed({"range_size"}) /\ PreIntact /\ last.res = "ok"
  /\ last.pos = NullIt /\ last.ret = NullIt /\ last.a = 0
  /\ size(PreMem, RefChain) = 0

\* The number of linked segments of the state (M, alv)
LinkedCount(M, alv) == Cardinality({s \in Segs \cap alv : is_linked(M, s)})

\* A segment was move-assigned onto another segment that was linked.
MoveOntoLinked ==
  /\ Observed({"seg_move_assign"}) /\ PreIntact
  /\ last.a /= last.b
  /\ is_linked(PreMem, last.a)

\* C33: move-assigning onto a destination segment that is itself linked
\* first removes the destination from its ring position; afterwards the
\* destination is in the source's former position, or unlinked if the source
\* was unlinked, the source is unlinked, and the number of linked segments
\* has gone down by exactly one.
C33_MoveAssignOntoLinked ==
  MoveOntoLinked =>
    LET d == last.a
        s == last.b
    IN  /\ last.res = "ok"
        /\ RingsIntact(Mem, alive)
        /\ \A c \in Chains \cap alive :
             Ring(Mem, c) = Replace(Without(Ring(PreMem, c), d), s, d)
        /\ is_linked(Mem, d) <=> is_linked(PreMem, s)
        /\ ~is_linked(Mem, s) /\ prev[s] = NULL
        /\ LinkedCount(Mem, alive) = LinkedCount(PreMem, pre.alive) - 1
        /\ alive = pre.alive

C33_Witness ==
  /\ MoveOntoLinked /\ is_linked(PreMem, last.b)
  /\ \E c \in Chains \cap alive :
       /\ size(PreMem, c) = 3
       /\ Ring(PreMem, c)[1] = last.a /\ Ring(PreMem, c)[2] = last.b
       /\ Ring(Mem, c) = <<last.a, Ring(PreMem, c)[3]>>

\* C34: exchanging two segments a and b by the three moves of std::swap
\* (tmp move-constructed from a, a move-assigned from b, b move-assigned
\* from tmp, tmp destroyed) exchanges their ring positions, also when a and
\* b are adjacent in one ring and when exactly one of them is linked, and
\* leaves the size of every chain and the positions of all other segments
\* unchanged.
C34_StdSwapExchangesPositions ==
  (Observed({"seg_std_swap"}) /\ PreIntact) =>
    LET a == last.a
        b == last.b
    IN  /\ last.res = "ok"
        /\ RingsIntact(Mem, alive)
        /\ \A c \in Chains \cap alive :
             /\ Ring(Mem, c) = Exchange(Ring(PreMem, c), a, b)
             /\ size(Mem, c) = size(PreMem, c)
        /\ is_linked(Mem, a) <=> is_linked(PreMem, b)
        /\ is_linked(Mem, b) <=> is_linked(PreMem, a)
        /\ payload[a] = pre.payload[b] /\ payload[b] = pre.payload[a]
        /\ alive = pre.alive

C34_Witness ==
  /\ Observed({"seg_std_swap"}) /\ PreIntact /\ last.res = "ok"
  /\ \E c \in Chains \cap alive :
       /\ size(PreMem, c) = 3
       /\ Ring(PreMem, c)[1] = last.a /\ Ring(PreMem, c)[2] = last.b
       /\ Ring(Mem, c) = <<last.b, last.a, Ring(PreMem, c)[3]>>

\* C35: over any sequence of legal calls to link, link_front, link_back,
\* place, chain.unlink, segment.unlink, clear, segment move construction
\* and assignment, chain move construction and assignment, chain swap and
\* the destruction of segments and chains, a segment reports is_linked()
\* true iff it is reachable along next from the sentinel of exactly one
\* chain, and no segment is reachable from the sentinels of two chains.
C35_LinkedIffInOneRing ==
  /\ \A c \in Chains \cap alive : segments(Mem, c).res = "ok"
  /\ \A s \in Segs \cap alive :
       LET homes == {c \in Chains \cap alive : InSeq(s, Ring(Mem, c))}
       IN  /\ Cardinality(homes) <= 1
           /\ is_linked(Mem, s) <=> Cardinality(homes) = 1

C35_Witness ==
  /\ Observed({"chain_move_assign"}) /\ last.res = "ok"
  /\ size(PreMem, last.c) = 1 /\ size(PreMem, last.b) = 2
  /\ size(Mem, last.c) = 2
  /\ LinkedCount(Mem, alive) = 2 /\ Cardinality(alive \cap Segs) = 3

\* C36: chain operator[](idx) and segments()[idx] with idx >= size() raise
\* a fatal contract violation; they never return a reference derived from
\* the sentinel and never wrap around the ring to a segment.
C36_IndexOutOfRange ==
  (Observed({"at"}) /\ PreIntact) =>
    LET c == last.c
        idx == last.b
        q == Ring(PreMem, c)
    IN  /\ idx >= size(PreMem, c) => last.res = "abort"
        /\ idx < size(PreMem, c) => last.res = "ok" /\ last.a = q[idx + 1]
        /\ last.res = "ok" => last.a \in Segs /\ last.a /= c
        /\ last.res \in {"ok", "abort"}
        /\ LinksKept /\ it = pre.it

C36_Witness ==
  /\ Observed({"at"}) /\ PreIntact /\ last.res = "abort"
  /\ size(PreMem, last.c) = 2 /\ last.b = 3

====
